---- MODULE Spec2Model ----
(***************************************************************************)
(* A model of svtools.vcf.variant.Variant: one record (line) of a VCF      *)
(* file, its construction from the split line, the lazy parsing of the    *)
(* genotype columns and the reconstruction of the line.                    *)
(*                                                                         *)
(* Python strings are sequences of one-character strings, so that split,   *)
(* join, int() and str() are computed as Python computes them.  Python     *)
(* values of mixed type are tagged records: Str(s), PyBool(b), PyInt(n),   *)
(* None.  A dict is a function; its key set is DOMAIN.                      *)
(***************************************************************************)
EXTENDS Integers, Sequences, FiniteSets, TLC

VARIABLES
    var_list,            \* the constructor's argument: the split line
    pc,                  \* "new" | "live" | "failed"
    err,                 \* how the failed call ended ("none" while alive)
    chrom, pos, var_id, ref, alt, qual, filter,
    info,                \* dict: INFO id -> value
    active_formats,      \* set of FORMAT tags
    active_format_list,  \* list of FORMAT tags
    gts,                 \* None | Dict(sample name -> Genotype)
    format_string,       \* None | Str
    gts_string,          \* None | Str
    touched,             \* history: a mutator or genotype() was called
    last,                \* the last call: [op |-> ..., its arguments]
    ret                  \* what the last call returned (None if nothing)

vars == <<var_list, pc, err, chrom, pos, var_id, ref, alt, qual, filter, info,
          active_formats, active_format_list, gts, format_string, gts_string,
          touched, last, ret>>

record == <<chrom, pos, var_id, ref, alt, qual, filter, info, active_formats,
            active_format_list, gts, format_string, gts_string>>

-----------------------------------------------------------------------------
(* Python values *)

None == [t |-> "None"]
Str(s) == [t |-> "str", s |-> s]
PyBool(b) == [t |-> "bool", b |-> b]
PyInt(n) == [t |-> "int", n |-> n]
Dict(d) == [t |-> "dict", d |-> d]

EmptyDict == [k \in {} |-> None]

\* d[k] = v on a dict
DictSet(d, k, v) == [x \in (DOMAIN d) \cup {k} |-> IF x = k THEN v ELSE d[x]]

TAB == "\t"

\* bool(v)
Truthy(v) ==
    CASE v.t = "bool" -> v.b
      [] v.t = "str"  -> Len(v.s) > 0
      [] v.t = "int"  -> v.n # 0
      [] OTHER        -> FALSE

Digits == <<"0", "1", "2", "3", "4", "5", "6", "7", "8", "9">>

DigitVal(c) == (CHOOSE i \in 1..10 : Digits[i] = c) - 1

IsDigit(c) == \E i \in 1..10 : Digits[i] = c

\* whether int(s) succeeds (decimal digits; signs, blanks and '_' are not
\* in the alphabet of the inputs)
IsIntLiteral(s) == Len(s) > 0 /\ \A i \in 1..Len(s) : IsDigit(s[i])

RECURSIVE IntOf(_)
IntOf(s) ==
    IF s = <<>> THEN 0
    ELSE 10 * IntOf(SubSeq(s, 1, Len(s) - 1)) + DigitVal(s[Len(s)])

RECURSIVE StrOfNat(_)
StrOfNat(n) ==
    IF n < 10 THEN <<Digits[n + 1]>>
    ELSE StrOfNat(n \div 10) \o <<Digits[(n % 10) + 1]>>

\* str(v), also what '%s' % v gives
PyStr(v) ==
    CASE v.t = "str"  -> v.s
      [] v.t = "int"  -> StrOfNat(v.n)
      [] v.t = "bool" -> IF v.b THEN <<"T", "r", "u", "e">>
                         ELSE <<"F", "a", "l", "s", "e">>
      [] OTHER        -> <<"N", "o", "n", "e">>

\* s.split(c): always at least one piece
RECURSIVE Split(_, _)
Split(s, c) ==
    IF \A i \in 1..Len(s) : s[i] # c THEN <<s>>
    ELSE LET i == CHOOSE j \in 1..Len(s) :
                      s[j] = c /\ \A k \in 1..(j - 1) : s[k] # c
         IN  <<SubSeq(s, 1, i - 1)>> \o Split(SubSeq(s, i + 1, Len(s)), c)

\* c.join(ss)
RECURSIVE Join(_, _)
Join(ss, c) ==
    IF ss = <<>> THEN <<>>
    ELSE IF Len(ss) = 1 THEN ss[1]
    ELSE ss[1] \o <<c>> \o Join(Tail(ss), c)

-----------------------------------------------------------------------------
(* The header (vcf): immutable, shared by the records *)

GT == <<"G", "T">>
DP == <<"D", "P">>
ZZ == <<"Z", "Z">>

vcf_sample_list == <<"S1", "S2">>

vcf_info_list ==
    << [id |-> <<"A">>, type |-> "String"],
       [id |-> <<"D">>, type |-> "Flag"],
       [id |-> <<"B">>, type |-> "Integer"] >>

vcf_format_list == << [id |-> GT], [id |-> DP] >>

sample_list == vcf_sample_list
info_list == vcf_info_list
format_list == vcf_format_list
format_set == {format_list[i].id : i \in 1..Len(format_list)}

-----------------------------------------------------------------------------
(* Genotype (svtools.vcf.genotype): one sample's call and sub-field values. *)
(* The call is the GT sub-field; the values are kept by FORMAT tag.         *)

MissingCall == <<".", "/", ".">>

\* Genotype(variant, gt)
Genotype(gt) == [format |-> (GT :> Str(gt))]

\* g.set_formats(fields, values): the tags paired with the values, in order
RECURSIVE Genotype_set_formats(_, _, _)
Genotype_set_formats(g, fields, values) ==
    IF fields = <<>> \/ values = <<>> THEN g
    ELSE Genotype_set_formats(
             [format |-> DictSet(g.format, Head(fields), Str(Head(values)))],
             Tail(fields), Tail(values))

\* The constructor and set_formats report no failure of their own.
Genotype_raises_IndexError(fields, values) == FALSE

\* g.get_gt_string(): the values of the record's active tags, in the
\* record's order, '.' for a tag the sample has no value of
Genotype_get_gt_string(g, afl) ==
    Join([i \in 1..Len(afl) |->
              IF afl[i] \in DOMAIN g.format THEN PyStr(g.format[afl[i]])
              ELSE <<".">>], ":")

-----------------------------------------------------------------------------
(* The pure parts of Variant *)

FormatIds == [i \in 1..Len(format_list) |-> format_list[i].id]
InfoIds == [i \in 1..Len(info_list) |-> info_list[i].id]

InActive(af, id) == id \in af

\* a mutant of ActiveFormatList: the filter is dropped
ActiveFormatList_All(af) == FormatIds

\* update_active_format_list: the new list
ActiveFormatList(af) == SelectSeq(FormatIds, LAMBDA id : InActive(af, id))

\* the loop of __init__ over the split INFO column
RECURSIVE InfoFromSplit(_, _)
InfoFromSplit(i_split, d) ==
    IF i_split = <<>> THEN d
    ELSE LET i == Head(i_split)
             v == IF Len(i) = 1 THEN PyBool(TRUE) ELSE Str(i[2])
         IN  InfoFromSplit(Tail(i_split), DictSet(d, i[1], v))

\* a mutant of SplitInfoColumn: only the first part is read
SplitInfoColumn_First(col) == <<Split(Head(Split(col, ";")), "=")>>

SplitInfoColumn(col) ==
    LET parts == Split(col, ";")
    IN  [k \in 1..Len(parts) |-> Split(parts[k], "=")]

ParseInfo(col) == InfoFromSplit(SplitInfoColumn(col), EmptyDict)

\* a mutant of InfoItem: a Flag is emitted whatever its value
InfoItem_FlagAlways(f, inf) ==
    IF f.id \in DOMAIN inf
    THEN IF f.type = "Flag"
         THEN <<f.id>>
         ELSE <<f.id \o <<"=">> \o PyStr(inf[f.id])>>
    ELSE <<>>

\* one element of i_list, or nothing, for one header field
InfoItem(f, inf) ==
    IF f.id \in DOMAIN inf
    THEN IF f.type = "Flag"
         THEN IF Truthy(inf[f.id]) THEN <<f.id>> ELSE <<>>
         ELSE <<f.id \o <<"=">> \o PyStr(inf[f.id])>>
    ELSE <<>>

RECURSIVE InfoItems(_, _)
InfoItems(fields, inf) ==
    IF fields = <<>> THEN <<>>
    ELSE InfoItem(Head(fields), inf) \o InfoItems(Tail(fields), inf)

\* a mutant of InfoWalk: the header's fields, last first
InfoWalk_Reversed == [i \in 1..Len(info_list) |-> info_list[Len(info_list) + 1 - i]]

\* the fields get_info_string walks, in the order it walks them
InfoWalk == info_list

\* get_info_string
InfoString(inf) == Join(InfoItems(InfoWalk, inf), ";")

\* get_format_string
\* a mutant of FormatString: every declared id is emitted
FormatString_AllDeclared(fs, af) ==
    IF fs # None THEN fs.s ELSE Join(FormatIds, ":")

FormatString(fs, af) ==
    IF fs # None THEN fs.s
    ELSE Join(SelectSeq(FormatIds, LAMBDA id : id \in af), ":")

\* the body of the try of _parse_genotypes for one column
ParseSample(format_field_tags, sample_string) ==
    LET sample_field == Split(sample_string, ":")
    IN  IF Genotype_raises_IndexError(format_field_tags, sample_field)
        THEN Genotype(MissingCall)
        ELSE Genotype_set_formats(Genotype(sample_field[1]),
                                  format_field_tags, sample_field)

\* the columns _parse_genotypes gives a Genotype
ParsedColumns(genotype_array) == 1..Len(genotype_array)

\* _parse_genotypes raises IndexError at sample_list[index]
ParseRaisesIndexError(genotype_array) ==
    \E index \in ParsedColumns(genotype_array) : index > Len(sample_list)

\* _parse_genotypes: the dict it returns
ParseGenotypes(format_field_tags, genotype_array) ==
    LET cols == ParsedColumns(genotype_array)
    IN  [name \in {sample_list[index] : index \in cols} |->
            LET index == CHOOSE j \in cols :
                             /\ sample_list[j] = name
                             /\ \A k \in cols : sample_list[k] = name => k <= j
            IN  ParseSample(format_field_tags, genotype_array[index])]

\* a call's outcome: a returned value, or the way it ended
Ok(v) == [ok |-> TRUE, v |-> v]
Raise(e) == [ok |-> FALSE, e |-> e]

\* bool(self.gts): None and the empty dict are falsy
GtsTruthy(g) == g # None /\ DOMAIN g.d # {}

\* a mutant of ParsedGtString: the cached string whatever the mode
ParsedGtString_Cached(use_cached_gt_string, g, gs, afl) == Ok(gs)

\* what get_gt_string answers in the parsed state
ParsedGtString(use_cached_gt_string, g, gs, afl) ==
    IF use_cached_gt_string THEN Ok(gs)
    ELSE IF \E i \in 1..Len(sample_list) : sample_list[i] \notin DOMAIN g.d
         THEN Raise("exit_sample")
         ELSE Ok(Str(Join([i \in 1..Len(sample_list) |->
                              Genotype_get_gt_string(g.d[sample_list[i]], afl)],
                          TAB)))

\* get_gt_string(use_cached_gt_string)
GtString(use_cached_gt_string, g, gs, afl) ==
    IF GtsTruthy(g) THEN ParsedGtString(use_cached_gt_string, g, gs, afl)
    ELSE Ok(gs)

\* the guard of get_var_string for appending FORMAT and the genotypes
HasGenotypeData(af, fs) == ~(Cardinality(af) = 0 /\ fs = None)

\* get_var_string(use_cached_gt_string)
VarString(use_cached_gt_string) ==
    LET fields == <<PyStr(chrom), PyStr(pos), PyStr(var_id), PyStr(ref),
                    PyStr(alt), PyStr(qual), PyStr(filter), InfoString(info)>>
        g == GtString(use_cached_gt_string, gts, gts_string, active_format_list)
    IN  IF HasGenotypeData(active_formats, format_string)
        THEN IF ~g.ok THEN g
             ELSE IF g.v = None THEN Raise("exit_gts")
             ELSE Ok(Str(Join(fields \o <<FormatString(format_string, active_formats),
                                          g.v.s>>, TAB)))
        ELSE Ok(Str(Join(fields, TAB)))

\* { i for i in format_string.split(':') }
FormatTags(fs) == {Split(fs, ":")[k] : k \in 1..Len(Split(fs, ":"))}

\* a mutant of CachedGtsString: the join starts one column early
CachedGtsString_FromFormat(vl) == Join(SubSeq(vl, 9, Len(vl)), TAB)

\* '\t'.join(var_list[9:])
CachedGtsString(vl) == Join(SubSeq(vl, 10, Len(vl)), TAB)

\* how __init__ ends for a line: the first statement that fails
InitOutcome(vl) ==
    IF Len(vl) < 2 THEN "IndexError"
    ELSE IF ~IsIntLiteral(vl[2]) THEN "ValueError"
    ELSE IF Len(vl) < 7 THEN "IndexError"
    ELSE IF Len(vl) < 8 THEN "exit_columns"
    ELSE IF Len(vl) < 9 THEN "IndexError"
    ELSE "ok"

-----------------------------------------------------------------------------
(* The inputs *)

MaxInfoParts == 2
MaxGtCols == 3

SeqsUpTo(S, n) == UNION {[1..k -> S] : k \in 0..n}

PosStrings == {<<"7">>, <<"0", "7">>, <<"7", "0">>, <<"x">>, <<>>}

InfoParts ==
    { <<"A", "=", "1">>, <<"D">>, <<"B", "=", "2">>, <<"X", "=", "3">>,
      <<"A", "=", "1", "=", "2">>, <<"D", "=">>, <<"B">> }

InfoColumns == {Join(ps, ";") : ps \in SeqsUpTo(InfoParts, MaxInfoParts)}

FormatColumns == {<<"G", "T", ":", "D", "P">>, <<"D", "P", ":", "G", "T">>,
                  <<"G", "T">>, <<"G", "T", ":", "Z", "Z">>}

GtColumns == {<<"0", "/", "1", ":", "5">>, <<"1", "/", "1">>}

BaseInfo == <<"A", "=", "1", ";", "D">>
BaseFormat == <<"G", "T", ":", "D", "P">>
BaseGts == << <<"0", "/", "1", ":", "5">>, <<"1", "/", "1", ":", "8">> >>

Line(p, i, f, g) == << <<"c">>, p, <<".">>, <<"A">>, <<"G">>, <<"5">>, <<"P">>, i, f >> \o g

ShortLines == {SubSeq(Line(p, BaseInfo, BaseFormat, <<>>), 1, n) :
                   p \in PosStrings, n \in 0..8}
PosLines == {Line(p, BaseInfo, BaseFormat, BaseGts) : p \in PosStrings}
InfoLines == {Line(<<"7">>, i, BaseFormat, BaseGts) : i \in InfoColumns}
GtLines == {Line(<<"7">>, BaseInfo, f, g) :
                f \in FormatColumns, g \in SeqsUpTo(GtColumns, MaxGtCols)}

Inputs == ShortLines \cup PosLines \cup InfoLines \cup GtLines

SampleNames == {"S1", "S2", "S9"}
InfoFieldArgs == {<<"A">>, <<"D">>, <<"B">>, <<"X">>}
SetInfoCalls ==
    { <<<<"A">>, Str(<<"1">>)>>, <<<<"D">>, Str(<<"1">>)>>, <<<<"D">>, Str(<<>>)>>,
      <<<<"B">>, PyBool(TRUE)>>, <<<<"X">>, Str(<<"1">>)>> }
SetFormatCalls == { <<DP, Str(<<"9">>)>> }

\* the tags that active_formats.add is called with
AddedFormats == {DP}

-----------------------------------------------------------------------------
(* The state machine *)

Init ==
    /\ var_list \in Inputs
    /\ pc = "new"
    /\ err = "none"
    /\ chrom = None /\ pos = None /\ var_id = None /\ ref = None
    /\ alt = None /\ qual = None /\ filter = None
    /\ info = EmptyDict
    /\ active_formats = {}
    /\ active_format_list = <<>>
    /\ gts = None
    /\ format_string = None
    /\ gts_string = None
    /\ touched = FALSE
    /\ last = [op |-> "none"]
    /\ ret = None

\* Variant(var_list, vcf)
Variant_init ==
    /\ pc = "new"
    /\ last' = [op |-> "init"]
    /\ IF InitOutcome(var_list) = "ok"
       THEN /\ pc' = "live"
            /\ chrom' = Str(var_list[1])
            /\ pos' = PyInt(IntOf(var_list[2]))
            /\ var_id' = Str(var_list[3])
            /\ ref' = Str(var_list[4])
            /\ alt' = Str(var_list[5])
            /\ qual' = Str(var_list[6])
            /\ filter' = Str(var_list[7])
            /\ gts' = None
            /\ format_string' = Str(var_list[9])
            /\ active_formats' = FormatTags(var_list[9])
            /\ active_format_list' = ActiveFormatList(active_formats')
            /\ gts_string' = Str(CachedGtsString(var_list))
            /\ info' = ParseInfo(var_list[8])
            /\ UNCHANGED <<var_list, err, touched, ret>>
       ELSE /\ pc' = "failed"
            /\ err' = InitOutcome(var_list)
            /\ UNCHANGED <<var_list, record, touched, ret>>

\* a call that ends in an uncaught exception or exit(1): the record is
\* left as it is and nothing more is done with it
Abort(e) ==
    /\ pc' = "failed"
    /\ err' = e
    /\ ret' = None

Return(v) ==
    /\ ret' = v
    /\ UNCHANGED <<pc, err>>

\* a mutant of IsDeclaredInfo: any id passes
IsDeclaredInfo_Any(field) == TRUE

\* field in [i.id for i in self.info_list]
IsDeclaredInfo(field) == \E i \in 1..Len(info_list) : info_list[i].id = field

set_info(field, value) ==
    /\ pc = "live"
    /\ last' = [op |-> "set_info", field |-> field, value |-> value]
    /\ touched' = TRUE
    /\ IF IsDeclaredInfo(field)
       THEN /\ info' = DictSet(info, field, value)
            /\ Return(None)
       ELSE /\ Abort("exit_info")
            /\ UNCHANGED info
    /\ UNCHANGED <<var_list, chrom, pos, var_id, ref, alt, qual, filter,
                   active_formats, active_format_list, gts, format_string,
                   gts_string>>

get_info(field) ==
    /\ pc = "live"
    /\ last' = [op |-> "get_info", field |-> field]
    /\ IF field \in DOMAIN info THEN Return(info[field]) ELSE Abort("KeyError")
    /\ UNCHANGED <<var_list, record, touched>>

get_info_string ==
    /\ pc = "live"
    /\ last' = [op |-> "get_info_string"]
    /\ Return(Str(InfoString(info)))
    /\ UNCHANGED <<var_list, record, touched>>

get_format_string ==
    /\ pc = "live"
    /\ last' = [op |-> "get_format_string"]
    /\ Return(Str(FormatString(format_string, active_formats)))
    /\ UNCHANGED <<var_list, record, touched>>

\* a mutant of get_gt_string: a raw record is parsed before it is written
get_gt_string_Materializing(use_cached_gt_string) ==
    /\ pc = "live"
    /\ last' = [op |-> "get_gt_string", use_cached |-> use_cached_gt_string]
    /\ LET genotype_array == Split(gts_string.s, TAB)
           parse == gts = None /\ ~ParseRaisesIndexError(genotype_array)
       IN  /\ gts' = IF parse
                     THEN Dict(ParseGenotypes(Split(format_string.s, ":"),
                                              genotype_array))
                     ELSE gts
           /\ format_string' = IF parse THEN None ELSE format_string
    /\ LET r == GtString(use_cached_gt_string, gts', gts_string, active_format_list)
       IN  IF r.ok THEN Return(r.v) ELSE Abort(r.e)
    /\ UNCHANGED <<var_list, chrom, pos, var_id, ref, alt, qual, filter, info,
                   active_formats, active_format_list, gts_string, touched>>

get_gt_string(use_cached_gt_string) ==
    /\ pc = "live"
    /\ last' = [op |-> "get_gt_string", use_cached |-> use_cached_gt_string]
    /\ LET r == GtString(use_cached_gt_string, gts, gts_string, active_format_list)
       IN  IF r.ok THEN Return(r.v) ELSE Abort(r.e)
    /\ UNCHANGED <<var_list, record, touched>>

get_var_string(use_cached_gt_string) ==
    /\ pc = "live"
    /\ last' = [op |-> "get_var_string", use_cached |-> use_cached_gt_string]
    /\ LET r == VarString(use_cached_gt_string)
       IN  IF r.ok THEN Return(r.v) ELSE Abort(r.e)
    /\ UNCHANGED <<var_list, record, touched>>

update_active_format_list ==
    /\ pc = "live"
    /\ last' = [op |-> "update_active_format_list"]
    /\ active_format_list' = ActiveFormatList(active_formats)
    /\ Return(None)
    /\ UNCHANGED <<var_list, chrom, pos, var_id, ref, alt, qual, filter, info,
                   active_formats, gts, format_string, gts_string, touched>>

\* a mutant of ParsedFormatString: the FORMAT column is kept
ParsedFormatString_Kept(fs) == fs

\* what genotype() leaves in format_string once it has parsed
ParsedFormatString(fs) == None

\* what genotype() leaves in gts_string once it has parsed
ParsedGtsString(gs) == gs

\* a mutant of genotype: the genotype columns are parsed at every call
genotype_Reparsing(sample_name) ==
    /\ pc = "live"
    /\ last' = [op |-> "genotype", sample |-> sample_name]
    /\ touched' = TRUE
    /\ LET genotype_array == Split(gts_string.s, TAB)
           tags == Split(FormatString(format_string, active_formats), ":")
       IN  IF ParseRaisesIndexError(genotype_array)
           THEN /\ Abort("IndexError")
                /\ UNCHANGED <<gts, format_string, gts_string>>
           ELSE /\ gts' = Dict(ParseGenotypes(tags, genotype_array))
                /\ format_string' = ParsedFormatString(format_string)
                /\ gts_string' = ParsedGtsString(gts_string)
                /\ IF sample_name \in DOMAIN gts'.d
                   THEN Return([t |-> "Genotype", sample |-> sample_name])
                   ELSE Abort("exit_sample")
    /\ UNCHANGED <<var_list, chrom, pos, var_id, ref, alt, qual, filter, info,
                   active_formats, active_format_list>>

genotype(sample_name) ==
    /\ pc = "live"
    /\ last' = [op |-> "genotype", sample |-> sample_name]
    /\ touched' = TRUE
    /\ LET genotype_array == Split(gts_string.s, TAB)
       IN  IF gts = None /\ ParseRaisesIndexError(genotype_array)
           THEN /\ Abort("IndexError")
                /\ UNCHANGED <<gts, format_string, gts_string>>
           ELSE /\ IF gts = None
                   THEN /\ gts' = Dict(ParseGenotypes(Split(format_string.s, ":"),
                                                      genotype_array))
                        /\ format_string' = ParsedFormatString(format_string)
                        /\ gts_string' = ParsedGtsString(gts_string)
                   ELSE UNCHANGED <<gts, format_string, gts_string>>
                /\ IF sample_name \in DOMAIN gts'.d
                   THEN Return([t |-> "Genotype", sample |-> sample_name])
                   ELSE Abort("exit_sample")
    /\ UNCHANGED <<var_list, chrom, pos, var_id, ref, alt, qual, filter, info,
                   active_formats, active_format_list>>

\* g.set_format(field, value) on the Genotype that genotype(sample_name) gave
Genotype_set_format(sample_name, field, value) ==
    /\ pc = "live"
    /\ gts # None
    /\ sample_name \in DOMAIN gts.d
    /\ last' = [op |-> "set_format", sample |-> sample_name, field |-> field,
                value |-> value]
    /\ touched' = TRUE
    /\ gts' = Dict([gts.d EXCEPT ![sample_name] =
                       [format |-> DictSet(@.format, field, value)]])
    /\ active_formats' = active_formats \cup {field}
    /\ active_format_list' = ActiveFormatList(active_formats')
    /\ Return(None)
    /\ UNCHANGED <<var_list, chrom, pos, var_id, ref, alt, qual, filter, info,
                   format_string, gts_string>>

\* variant.active_formats.add(tag): the set is changed in place and
\* active_format_list waits for update_active_format_list()
active_formats_add(tag) ==
    /\ pc = "live"
    /\ last' = [op |-> "active_formats_add", field |-> tag]
    /\ touched' = TRUE
    /\ active_formats' = active_formats \cup {tag}
    /\ Return(None)
    /\ UNCHANGED <<var_list, chrom, pos, var_id, ref, alt, qual, filter, info,
                   active_format_list, gts, format_string, gts_string>>

Next ==
    \/ Variant_init
    \/ \E c \in SetInfoCalls : set_info(c[1], c[2])
    \/ \E f \in InfoFieldArgs : get_info(f)
    \/ get_info_string
    \/ get_format_string
    \/ \E u \in BOOLEAN : get_gt_string(u)
    \/ \E u \in BOOLEAN : get_var_string(u)
    \/ update_active_format_list
    \/ \E s \in SampleNames : genotype(s)
    \/ \E s \in SampleNames, c \in SetFormatCalls : Genotype_set_format(s, c[1], c[2])
    \/ \E t \in AddedFormats : active_formats_add(t)

Spec == Init /\ [][Next]_vars

-----------------------------------------------------------------------------
(* Properties *)

Range(f) == {f[i] : i \in DOMAIN f}

\* the record exists: __init__ returned
Constructed == pc = "live" \/ (pc = "failed" /\ last.op # "init")

\* the last call was op and it returned
Returned(op) == pc = "live" /\ last.op = op

OriginalLine == Join(var_list, TAB)

\* a decimal literal that str(int(.)) gives back
CanonicalPos(p) == IsIntLiteral(p) /\ (Len(p) > 1 => p[1] # "0")

HeaderIndex(id) == CHOOSE i \in 1..Len(info_list) : info_list[i].id = id

\* an INFO column written the way the header orders and types its fields:
\* declared ids only, in the header's order, a Flag id bare, any other id
\* as id=value with no second '='
NormalInfo(col) ==
    LET parts == Split(col, ";")
        kv == [k \in 1..Len(parts) |-> Split(parts[k], "=")]
    IN  /\ \A k \in 1..Len(parts) :
              /\ kv[k][1] \in Range(InfoIds)
              /\ IF info_list[HeaderIndex(kv[k][1])].type = "Flag"
                 THEN Len(kv[k]) = 1
                 ELSE Len(kv[k]) = 2
        /\ \A k \in 1..(Len(parts) - 1) :
              HeaderIndex(kv[k][1]) < HeaderIndex(kv[k + 1][1])

\* get_var_string was called on a record nothing else was done to
FreshVarString == Returned("get_var_string") /\ ~touched

\* C1 (as the claim states it, for a line that has sample columns and a
\* canonical POS): get_var_string() right after construction returns the
\* original tab-joined line byte for byte, whatever its INFO column holds.
C1_RoundTrip_AsClaimed ==
    (FreshVarString /\ Len(var_list) >= 10 /\ CanonicalPos(var_list[2])) =>
        ret.s = OriginalLine

\* C1 (amended): get_var_string() right after construction returns the
\* CHROM, ID, REF, ALT, QUAL, FILTER, FORMAT and sample columns verbatim (a
\* line with no sample column gets one empty column appended), and it
\* returns the whole line byte for byte exactly when the line has a sample
\* column, POS is a canonical decimal and the INFO column is empty or in
\* the header's normal form.
C1_RoundTrip ==
    FreshVarString =>
        LET out == Split(ret.s, TAB)
            n == Len(var_list)
        IN  /\ out[1] = var_list[1]
            /\ SubSeq(out, 3, 7) = SubSeq(var_list, 3, 7)
            /\ out[2] = StrOfNat(IntOf(var_list[2]))
            /\ IF n >= 10 THEN SubSeq(out, 9, Len(out)) = SubSeq(var_list, 9, n)
               ELSE SubSeq(out, 9, Len(out)) = <<var_list[9], <<>>>>
            /\ (ret.s = OriginalLine) <=>
                   /\ n >= 10
                   /\ CanonicalPos(var_list[2])
                   /\ (NormalInfo(var_list[8]) \/ var_list[8] = <<>>)

\* C1 witness: a line with a two-field INFO column and two sample columns,
\* returned byte for byte right after construction
C1_Witness ==
    /\ FreshVarString
    /\ ret.s = OriginalLine
    /\ Len(Split(var_list[8], ";")) = 2
    /\ Len(var_list) = 11

AllSamplesParsed == Range(sample_list) \subseteq DOMAIN gts.d

\* the genotype columns as the parsed Genotype records give them, in the
\* header's sample order
Resynthesized ==
    Join([i \in 1..Len(sample_list) |->
             Genotype_get_gt_string(gts.d[sample_list[i]], active_format_list)],
         TAB)

\* the genotype columns of what the last serialization returned
ReturnedGtColumns ==
    IF last.op = "get_gt_string" THEN ret.s
    ELSE LET out == Split(ret.s, TAB)
         IN  Join(SubSeq(out, 10, Len(out)), TAB)

\* a serialization of the genotype columns was called in the parsed state
SerializedParsed ==
    gts # None /\ last.op \in {"get_gt_string", "get_var_string"}

C4_OneWay_AsClaimed ==
    [][ /\ (last'.op = "init" /\ pc' = "live") =>
               (gts' = None /\ format_string' # None)
        /\ last'.op = "genotype" => (gts' # None /\ format_string' = None)
        /\ gts # None => (gts' # None /\ format_string' = None) ]_vars

\* C4 (the part of the claim that holds): a record starts raw, and no
\* call takes a parsed record back to the raw state.
C4_Irreversible ==
    [][ /\ (last'.op = "init" /\ pc' = "live") =>
               (gts' = None /\ format_string' # None)
        /\ gts # None => (gts' # None /\ format_string' = None) ]_vars

\* the number of genotype columns of the line
NumGtColumns == Len(var_list) - 9

\* C5 (as the claim states it): once parsed, the map holds one Genotype
\* for every declared sample and no other key; a sample with no column
\* has the './.' Genotype, and genotype(name) of a declared sample returns.
C5_SampleCoverage_AsClaimed ==
    /\ gts # None =>
           /\ DOMAIN gts.d = Range(sample_list)
           /\ \A i \in 1..Len(sample_list) :
                  i > NumGtColumns => gts.d[sample_list[i]] = Genotype(MissingCall)
    /\ (last.op = "genotype" /\ last.sample \in Range(sample_list)) =>
           pc = "live"

\* the value a sample column has for a tag of the FORMAT column
\* (<<>> when the column ends before the tag)
SubField(col, tags, t) ==
    LET f == Split(col, ":")
        i == CHOOSE j \in 1..Len(tags) : tags[j] = t
    IN  IF i <= Len(f) THEN <<f[i]>> ELSE <<>>

\* the parsed map is as genotype() left it
Unmutated ==
    /\ gts = Dict(ParseGenotypes(Split(var_list[9], ":"),
                                 Split(CachedGtsString(var_list), TAB)))
    /\ active_formats = FormatTags(var_list[9])

\* C6 (as the claim states it): genotype() of every declared sample
\* returns, and get_gt_string(False) then gives as many sample columns as
\* the line has, each with the original value for every tag of the
\* line's FORMAT column.
C6_LazyThenSerialize_AsClaimed ==
    /\ (last.op = "genotype" /\ last.sample \in Range(sample_list)) =>
           pc = "live"
    /\ (gts # None /\ last.op = "get_gt_string" /\ ~last.use_cached /\ Unmutated) =>
           /\ pc = "live"
           /\ LET out == Split(ret.s, TAB)
                  cols == SubSeq(var_list, 10, Len(var_list))
                  tags == Split(var_list[9], ":")
                  outtags == Split(FormatString(format_string, active_formats), ":")
              IN  /\ Len(out) = Len(cols)
                  /\ \A c \in 1..Len(cols) : \A t \in Range(tags) :
                         SubField(cols[c], tags, t) # <<>> =>
                             /\ t \in Range(outtags)
                             /\ SubField(out[c], outtags, t) = SubField(cols[c], tags, t)

\* C7 (as the claim states it): a line of exactly 8 columns is accepted,
\* and get_var_string() returns those 8 columns and nothing more.
C7_EightColumns_AsClaimed ==
    (Len(var_list) = 8 /\ IsIntLiteral(var_list[2]) /\ last.op # "none") =>
        /\ Constructed
        /\ Returned("get_var_string") => ret.s = OriginalLine

\* C8 (as the claim states it): construction from a line of fewer than 8
\* columns, or with a non-numeric POS, ends in the 'must have at least 8
\* columns' exit.
C8_Malformed_AsClaimed ==
    (last.op = "init" /\ (Len(var_list) < 8 \/ ~IsIntLiteral(var_list[2]))) =>
        pc = "failed" /\ err = "exit_columns"

\* the fields of a returned INFO string
InfoFields(str) == IF str = <<>> THEN <<>> ELSE Split(str, ";")

\* the id of one field: what stands before its '='
FieldId(field) == Split(field, "=")[1]

\* C9: whatever set_info calls were made and whatever the order of the
\* line's INFO column, the ids of the fields get_info_string() returns are
\* declared ids in the header's order, each at most once.
C9_InfoOrder ==
    Returned("get_info_string") =>
        LET fs == InfoFields(ret.s)
        IN  /\ \A k \in 1..Len(fs) : FieldId(fs[k]) \in Range(InfoIds)
            /\ \A j, k \in 1..Len(fs) :
                   j < k => HeaderIndex(FieldId(fs[j])) < HeaderIndex(FieldId(fs[k]))

\* C9 witness: the line's INFO column started with the header's last id,
\* set_info was called, and get_info_string() returned all three fields
C9_Witness ==
    /\ Returned("get_info_string")
    /\ touched
    /\ FieldId(Split(var_list[8], ";")[1]) = <<"B">>
    /\ Len(InfoFields(ret.s)) = Len(info_list)

\* the fields of the returned INFO string that carry the id
FieldsOf(id) == SelectSeq(InfoFields(ret.s), LAMBDA f : FieldId(f) = id)

\* C10: for a declared field that is in the info map, get_info_string()
\* returns the bare id when the type is Flag and the value truthy, nothing
\* when the type is Flag and the value falsy, and id=value for any other
\* type.
C10_FlagSemantics ==
    Returned("get_info_string") =>
        \A i \in 1..Len(info_list) :
            LET f == info_list[i]
            IN  f.id \in DOMAIN info =>
                    IF f.type = "Flag"
                    THEN IF Truthy(info[f.id]) THEN FieldsOf(f.id) = <<f.id>>
                         ELSE FieldsOf(f.id) = <<>>
                    ELSE FieldsOf(f.id) = <<f.id \o <<"=">> \o PyStr(info[f.id])>>

\* C10 witness: a Flag with a falsy value and a non-Flag with a boolean
\* value are in the map when get_info_string() returns
C10_Witness ==
    /\ Returned("get_info_string")
    /\ <<"D">> \in DOMAIN info /\ info[<<"D">>] = Str(<<>>)
    /\ <<"B">> \in DOMAIN info /\ info[<<"B">>] = PyBool(TRUE)
    /\ ret.s = <<"B", "=", "T", "r", "u", "e">>

\* C11: set_info(field, value) with an id the header does not declare ends
\* in the invalid-INFO-field exit and leaves info and every other field
\* of the record as they were; with a declared id it sets info[field] to
\* value and changes no other key and no other field.
C11_SetInfo ==
    [][ last'.op = "set_info" =>
          /\ <<chrom, pos, var_id, ref, alt, qual, filter, active_formats,
               active_format_list, gts, format_string, gts_string>>' =
             <<chrom, pos, var_id, ref, alt, qual, filter, active_formats,
               active_format_list, gts, format_string, gts_string>>
          /\ IF last'.field \in Range(InfoIds)
             THEN /\ pc' = "live"
                  /\ DOMAIN info' = DOMAIN info \cup {last'.field}
                  /\ info'[last'.field] = last'.value
                  /\ \A k \in DOMAIN info \ {last'.field} : info'[k] = info[k]
             ELSE /\ pc' = "failed"
                  /\ err' = "exit_info"
                  /\ info' = info ]_vars

\* C11 witness: set_info of the undeclared id X was rejected on a record
\* whose map holds two keys
C11_Witness ==
    /\ last.op = "set_info"
    /\ last.field = <<"X">>
    /\ pc = "failed" /\ err = "exit_info"
    /\ Cardinality(DOMAIN info) = 2

\* C12 (as the claim states it): genotype(name) with a name the header does
\* not declare ends in the invalid-sample-name exit, in the raw and in the
\* parsed state, whatever the number of genotype columns.
C12_UnknownSample_AsClaimed ==
    (last.op = "genotype" /\ last.sample \notin Range(sample_list)) =>
        pc = "failed" /\ err = "exit_sample"

FormatIndex(id) == CHOOSE i \in 1..Len(format_list) : format_list[i].id = id

\* a list of declared FORMAT ids in the header's order, none twice
InHeaderOrder(l) ==
    /\ Range(l) \subseteq Range(FormatIds)
    /\ \A i, j \in 1..Len(l) : i < j => FormatIndex(l[i]) < FormatIndex(l[j])

\* the tags that a returned FORMAT string names
ReturnedTags == IF ret.s = <<>> THEN <<>> ELSE Split(ret.s, ":")

\* genotype() is the only change the record has seen
OnlyMaterialized ==
    /\ gts # None
    /\ active_formats = FormatTags(var_list[9])
    /\ active_format_list = ActiveFormatList(FormatTags(var_list[9]))

\* C13 (as the claim states it): on a raw record get_format_string() returns
\* the FORMAT column verbatim, on a parsed record it returns
\* active_format_list joined with ':', and after materialization alone the
\* returned string names the same set of tags as the FORMAT column.
C13_FormatString_AsClaimed ==
    Returned("get_format_string") =>
        /\ format_string # None => ret = Str(var_list[9])
        /\ format_string = None => ret = Str(Join(active_format_list, ":"))
        /\ OnlyMaterialized => Range(ReturnedTags) = FormatTags(var_list[9])

\* C13: on a raw record get_format_string() returns the FORMAT column
\* verbatim; on a parsed record it returns the header's declared FORMAT ids
\* that are in active_formats, in the header's order, joined with ':',
\* which is active_format_list joined with ':' whenever that list is up to
\* date; after materialization alone the returned string names the tags of
\* the FORMAT column that the header declares.
C13_FormatString ==
    Returned("get_format_string") =>
        /\ format_string # None => ret = Str(var_list[9])
        /\ format_string = None =>
              /\ InHeaderOrder(ReturnedTags)
              /\ Range(ReturnedTags) = active_formats \cap Range(FormatIds)
              /\ Range(active_format_list) = Range(ReturnedTags) =>
                    ret = Str(Join(active_format_list, ":"))
        /\ OnlyMaterialized =>
              Range(ReturnedTags) = FormatTags(var_list[9]) \cap Range(FormatIds)

\* C13 witness: the FORMAT column GT:ZZ names a tag the header does not
\* declare; after materialization get_format_string() returned GT
C13_Witness ==
    /\ Returned("get_format_string")
    /\ OnlyMaterialized
    /\ ZZ \in FormatTags(var_list[9])
    /\ ret = Str(GT)

\* C14: right after construction and right after update_active_format_list()
\* active_format_list holds exactly the declared FORMAT ids that are in
\* active_formats, in the header's order and none twice; an undeclared tag
\* of active_formats is not in it.
C14_DerivedOrder ==
    (pc = "live" /\ last.op \in {"init", "update_active_format_list"}) =>
        /\ InHeaderOrder(active_format_list)
        /\ Range(active_format_list) = active_formats \cap Range(FormatIds)

\* C14 witness: update_active_format_list() ran after DP was added to the
\* active_formats of a line whose FORMAT column is GT:ZZ
C14_Witness ==
    /\ Returned("update_active_format_list")
    /\ var_list[9] = GT \o <<":">> \o ZZ
    /\ active_formats = {GT, ZZ, DP}
    /\ active_format_list = <<GT, DP>>

\* the position of the first '=' of a text, or one past its end
FirstEq(p) ==
    IF \E i \in 1..Len(p) : p[i] = "="
    THEN CHOOSE i \in 1..Len(p) : p[i] = "=" /\ \A k \in 1..(i - 1) : p[k] # "="
    ELSE Len(p) + 1

KeyOf(p) == SubSeq(p, 1, FirstEq(p) - 1)

HasValue(p) == FirstEq(p) <= Len(p)

\* everything that follows the first '=' of a part
WholeValue(p) == SubSeq(p, FirstEq(p) + 1, Len(p))

\* what follows the first '=' of a part, up to its next '='
StoredValue(p) == KeyOf(WholeValue(p))

\* the parts of the line's INFO column
ColumnParts == Split(var_list[8], ";")

ColumnKeys == {KeyOf(ColumnParts[i]) : i \in 1..Len(ColumnParts)}

\* the last part of the column that carries key k
LastPart(k) ==
    LET i == CHOOSE j \in 1..Len(ColumnParts) :
                 /\ KeyOf(ColumnParts[j]) = k
                 /\ \A m \in (j + 1)..Len(ColumnParts) : KeyOf(ColumnParts[m]) # k
    IN  ColumnParts[i]

\* get_info on a record whose info is as the constructor built it
GetInfoAsBuilt ==
    last.op = "get_info" =>
        IF last.field \in ColumnKeys
        THEN pc = "live" /\ ret = info[last.field]
        ELSE pc = "failed" /\ err = "KeyError"

\* C15 (as the claim states it): after construction info holds exactly the
\* keys of the INFO column; for every part k=v get_info(k) returns the whole
\* text v after the key, for every bare part k it returns True; get_info of
\* any other id fails.
C15_InfoParsing_AsClaimed ==
    (Constructed /\ ~touched) =>
        /\ DOMAIN info = ColumnKeys
        /\ \A i \in 1..Len(ColumnParts) :
              info[KeyOf(ColumnParts[i])] =
                  IF HasValue(ColumnParts[i])
                  THEN Str(WholeValue(ColumnParts[i]))
                  ELSE PyBool(TRUE)
        /\ GetInfoAsBuilt

\* C15: after construction info holds exactly the keys of the INFO column,
\* declared or not; for every key k, get_info(k) returns what the last part
\* with that key gives: the text between its first '=' and its next '=' (the
\* whole value when the value holds no '='), or True for a bare part;
\* get_info of any other id ends in KeyError.
C15_InfoParsing ==
    (Constructed /\ ~touched) =>
        /\ DOMAIN info = ColumnKeys
        /\ \A k \in ColumnKeys :
              info[k] = IF HasValue(LastPart(k))
                        THEN Str(StoredValue(LastPart(k)))
                        ELSE PyBool(TRUE)
        /\ GetInfoAsBuilt

\* C15 witness: get_info(A) returned 1 on a line whose INFO column is
\* X=3;A=1=2
C15_Witness ==
    /\ ~touched
    /\ Returned("get_info")
    /\ last.field = <<"A">>
    /\ ColumnParts = << <<"X", "=", "3">>, <<"A", "=", "1", "=", "2">> >>
    /\ ret = Str(<<"1">>)

Serializers ==
    {"get_var_string", "get_info_string", "get_format_string", "get_gt_string"}

\* C16: a call of get_var_string, get_info_string, get_format_string or
\* get_gt_string, in either cached mode, leaves every field of the record
\* as it was (a raw record stays raw), and the same call made again right
\* after it returns the same string.
C16_ReadOnly ==
    [][ last'.op \in Serializers =>
          /\ record' = record
          /\ touched' = touched
          /\ (last' = last /\ pc = "live" /\ pc' = "live") => ret' = ret ]_vars

\* C16 witness: get_gt_string(False) returned the genotype columns of a raw
\* record that nothing has touched, and the record is still raw
C16_Witness ==
    /\ Returned("get_gt_string")
    /\ ~last.use_cached
    /\ ~touched
    /\ gts = None
    /\ format_string = Str(var_list[9])
    /\ Len(var_list) = 11
    /\ ret = Str(Join(SubSeq(var_list, 10, 11), TAB))

\* C17: the genotype columns are parsed by a genotype() call on a raw record
\* and by nothing else; on a parsed record every genotype(name) call and
\* every serialization leaves gts, modified Genotypes included, as it was,
\* and a genotype(name) call that returns gives the record held for name.
C17_ParsedOnce ==
    [][ /\ (gts = None /\ gts' # None) => last'.op = "genotype"
        /\ (gts # None /\ last'.op \in Serializers \cup {"genotype"}) =>
              /\ gts' = gts
              /\ (last'.op = "genotype" /\ pc' = "live") =>
                    /\ ret'.t = "Genotype"
                    /\ ret'.sample = last'.sample
                    /\ ret'.sample \in DOMAIN gts.d ]_vars

\* C17 witness: S1's DP was 5 on the line and was set to 9 on its Genotype;
\* a later genotype('S1') returned and the Genotype still holds 9
C17_Witness ==
    /\ Returned("genotype")
    /\ last.sample = "S1"
    /\ Len(var_list) >= 10
    /\ var_list[9] = GT \o <<":">> \o DP
    /\ var_list[10] = <<"0", "/", "1", ":", "5">>
    /\ gts # None
    /\ "S1" \in DOMAIN gts.d
    /\ DP \in DOMAIN gts.d["S1"].format
    /\ gts.d["S1"].format[DP] = Str(<<"9">>)

====
